---- MODULE Spec2Model ----
(***************************************************************************)
(* A model of libbitcoin-database's memory mapped file (memory_map.cpp)    *)
(* and of the transaction database built on it                             *)
(* (transaction_database.cpp).                                             *)
(*                                                                         *)
(* Three state machines share the definitions below:                       *)
(*   SpecMap   threads calling access(), reserve(), resize() and stop()    *)
(*             on one memory_map, with every system call free to fail;     *)
(*   SpecFile  a single writer storing records while other callers         *)
(*             reserve()/resize() the file, with crash and reopen;         *)
(*   SpecDb    store, pool, confirm and unconfirm on the transaction       *)
(*             database.                                                   *)
(*                                                                         *)
(* The shared_mutex wrappers behind REMAP_ACCESSOR / REMAP_ALLOCATOR /     *)
(* REMAP_DOWNGRADE / REMAP_READ / REMAP_WRITE and the slab hash table      *)
(* behind hash_table_ are not part of the two source files; they are       *)
(* modelled from the specification text (sections 4.2, 4.3, 4.4 and 5).    *)
(***************************************************************************)
EXTENDS Integers, Sequences, FiniteSets, TLC

(***************************************************************************)
(* Bounds of the model.                                                    *)
(***************************************************************************)
NumThreads == 2
NumSteppers == 1
MaxSize == 2
NumAddrs == 2
MaxViews == 2

MaxRecords == 2
MaxHeight == 2
MaxMtp == 1
MaxPosition == 0
MaxSteps == 1
SizeStep == 100
DbFileLength == 4
MaxFileSize == 200

Threads == 1..NumThreads
\* The threads whose confirm() and unconfirm() calls SpecDb and SpecOut
\* follow step by step; the calls of the others run between those steps.
Steppers == 1..NumSteppers
Sizes == 0..MaxSize
Addrs == 1..NumAddrs

(***************************************************************************)
(* Program constants.                                                      *)
(***************************************************************************)
EXPANSION_NUMERATOR == 150
EXPANSION_DENOMINATOR == 100
\* nullptr, MAP_FAILED ((void*) -1) and the invalid file handle.
nullptr == 0
MAP_FAILED == -1
invalid_handle == -1
\* The descriptor open() returns when it succeeds.
some_handle == 3


\* transaction_database.cpp, lines 71-84.
height_size == 4
position_size == 2
state_size == 1
median_time_past_size == 4
index_spend_size == 1
value_size == 8
spend_size == index_spend_size + height_size + value_size
metadata_size == height_size + position_size + state_size +
    median_time_past_size
no_time == 0
\* transaction_result::unconfirmed, the position of an unconfirmed record.
unconfirmed == 65535
\* rule_fork::unverified, the forks of a record returned to the pool.
unverified == 0
\* output::validation::not_spent is 0xFFFFFFFF in the program. The checker's
\* integers are 32 bit signed numbers, so the model writes the largest
\* numbers it has for it; every height the model uses is far below it, and
\* the program only compares it and tests it for equality.
not_spent == 2147483646
\* slab_map::not_found, the link of no element.
not_found == -1
\* The hash of a null point (a coinbase input).
null_hash == 0
\* max_size_t, the fork height of the transaction pool, on a 64 bit build:
\* above every 32 bit value, so one above the stand-in of not_spent.
max_size_t == 2147483647

VARIABLES
    mm,               \* the memory_map object: stopped_, data_, file_handle_,
                      \* file_size_, logical_size_
    os,               \* the operating system's side: the file's length on disk,
                      \* whether the descriptor is open, the live mapping
    maymove,          \* the build: TRUE when MREMAP_MAYMOVE is defined
    internal_mutex_,  \* number of shared holders of the internal mutex
    views,            \* views[t]: the base pointers of the Views thread t holds
    pc,               \* pc[t]: the call thread t waits in ("idle" when in none)
    ret               \* what the last completed call returned

VARIABLES
    records,          \* the records allocated in the file, in allocation order
    chain,            \* the hash index: offsets of the linked records, newest first
    pending,          \* the element created by the allocator and not yet linked
    allocating,       \* the offset the allocator has taken for the element it
                      \* is about to reserve and write (not_found when none)
    last,             \* the last database call: its arguments and what it returned
    frame             \* frame[t]: where thread t is inside confirm() or
                      \* unconfirm(), with its arguments and locals

\* A thread that is in no confirm() or unconfirm() call.
NoFrame == [at |-> "idle"]

mapvars == <<mm, os, maymove, frame, internal_mutex_, views, pc, ret>>
dbvars == <<records, chain, pending, allocating, last>>
dbvars_file == <<records, chain, pending, allocating>>
vars == <<mm, os, maymove, internal_mutex_, views, pc, ret,
          records, chain, pending, allocating, last, frame>>

(***************************************************************************)
(* The system calls. Each takes the outcome the operating system chooses   *)
(* (sys) and fails whenever that outcome says so or its arguments make it  *)
(* fail.                                                                   *)
(***************************************************************************)
\* One choice of outcome for every system call a single operation may make.
Outcomes ==
    [fstat : BOOLEAN, msync : BOOLEAN, munmap : BOOLEAN, ftruncate : BOOLEAN,
     mmap : Addrs \cup {MAP_FAILED}, fsync : BOOLEAN, close : BOOLEAN]

\* munmap(data, length): EINVAL for a zero length.
OsMunmap(o, data, length, sys) ==
    IF length = 0 \/ ~sys.munmap
    THEN [os |-> o, ok |-> FALSE]
    ELSE [os |-> IF data = o.base /\ data # nullptr
                 THEN [o EXCEPT !.base = nullptr, !.maplen = 0]
                 ELSE o,
          ok |-> TRUE]

\* mmap(0, size, ..., handle, 0): the new base, or MAP_FAILED.
OsMmap(o, handle, size, sys) ==
    IF handle = invalid_handle \/ ~o.open \/ size = 0 \/ sys.mmap = MAP_FAILED
    THEN [os |-> o, data |-> MAP_FAILED]
    ELSE [os |-> [o EXCEPT !.base = sys.mmap, !.maplen = size],
          data |-> sys.mmap]

\* mremap(data, old, size, MREMAP_MAYMOVE): the mapping grows in place or moves.
OsMremap(o, data, old, size, sys) ==
    IF data = nullptr \/ data # o.base \/ size = 0 \/ sys.mmap = MAP_FAILED
    THEN [os |-> o, data |-> MAP_FAILED]
    ELSE [os |-> [o EXCEPT !.base = sys.mmap, !.maplen = size],
          data |-> sys.mmap]

\* ftruncate(handle, size).
OsFtruncate(o, handle, size, sys) ==
    IF handle = invalid_handle \/ ~o.open \/ ~sys.ftruncate
    THEN [os |-> o, ok |-> FALSE]
    ELSE [os |-> [o EXCEPT !.length = size], ok |-> TRUE]

\* msync(data, length, MS_SYNC): a length of zero succeeds at any address;
\* otherwise ENOMEM unless data is the start of the live mapping (the pages
\* after a short mapping count as mapped).
OsMsync(o, data, length, sys) ==
    sys.msync /\ (length = 0 \/ (data # nullptr /\ data = o.base))

\* close(handle).
OsClose(o, handle, sys) ==
    IF handle = invalid_handle \/ ~o.open \/ ~sys.close
    THEN [os |-> o, ok |-> FALSE]
    ELSE [os |-> [o EXCEPT !.open = FALSE], ok |-> TRUE]

(***************************************************************************)
(* memory_map's private methods, as functions of the object (m) and the    *)
(* operating system's state (o).                                           *)
(***************************************************************************)
\* memory_map::file_size
file_size(o, handle, sys) ==
    IF handle = invalid_handle THEN 0
    ELSE IF ~sys.fstat THEN 0
    ELSE o.length

\* memory_map::validate, data being what mmap/mremap just stored in data_.
validate(m, data, size) ==
    IF data = MAP_FAILED
    THEN [mm |-> [m EXCEPT !.file_size_ = 0, !.data_ = nullptr], ok |-> FALSE]
    ELSE [mm |-> [m EXCEPT !.file_size_ = size, !.data_ = data], ok |-> TRUE]

\* memory_map::unmap
unmap(m, o, sys) ==
    LET u == OsMunmap(o, m.data_, m.file_size_, sys)
    IN  [mm |-> [m EXCEPT !.file_size_ = 0, !.data_ = nullptr],
         os |-> u.os, ok |-> u.ok]

\* memory_map::map
map(m, o, size, sys) ==
    IF size = 0
    THEN [mm |-> m, os |-> o, ok |-> FALSE]
    ELSE LET p == OsMmap(o, m.file_handle_, size, sys)
             v == validate(m, p.data, size)
         IN  [mm |-> v.mm, os |-> p.os, ok |-> v.ok]

\* memory_map::remap
remap(m, o, size, sys, movable) ==
    IF movable
    THEN LET p == OsMremap(o, m.data_, m.file_size_, size, sys)
             v == validate(m, p.data, size)
         IN  [mm |-> v.mm, os |-> p.os, ok |-> v.ok]
    ELSE LET u == unmap(m, o, sys)
         IN  IF u.ok THEN map(u.mm, u.os, size, sys) ELSE u

\* memory_map::truncate
truncate(m, o, size, sys, movable) ==
    LET u == IF movable THEN [mm |-> m, os |-> o, ok |-> TRUE]
                        ELSE unmap(m, o, sys)
    IN  IF ~u.ok THEN u
        ELSE LET f == OsFtruncate(u.os, u.mm.file_handle_, size, sys)
             IN  IF ~f.ok THEN [mm |-> u.mm, os |-> f.os, ok |-> FALSE]
                 ELSE IF movable THEN remap(u.mm, f.os, size, sys, movable)
                 ELSE map(u.mm, f.os, size, sys)

(***************************************************************************)
(* memory_map's public methods.                                            *)
(***************************************************************************)
\* The constructor with logical_size_ left at zero instead of the file's size.
construct_empty(length, exists, sys) ==
    LET handle == IF exists THEN some_handle ELSE invalid_handle
        o0 == [length |-> IF exists THEN length ELSE 0, open |-> exists,
               base |-> nullptr, maplen |-> 0]
        size == file_size(o0, handle, sys)
        m0 == [stopped_ |-> FALSE, data_ |-> nullptr, file_handle_ |-> handle,
               file_size_ |-> size, logical_size_ |-> 0]
        r == map(m0, o0, size, sys)
    IN  [mm |-> [r.mm EXCEPT !.stopped_ = ~r.ok], os |-> r.os]

\* memory_map::memory_map(filename): the object and the operating system's
\* state after construction over a file of the given length (exists says
\* whether open() finds it).
construct(length, exists, sys) ==
    LET handle == IF exists THEN some_handle ELSE invalid_handle
        o0 == [length |-> IF exists THEN length ELSE 0, open |-> exists,
               base |-> nullptr, maplen |-> 0]
        size == file_size(o0, handle, sys)
        m0 == [stopped_ |-> FALSE, data_ |-> nullptr, file_handle_ |-> handle,
               file_size_ |-> size, logical_size_ |-> size]
        r == map(m0, o0, size, sys)
    IN  [mm |-> [r.mm EXCEPT !.stopped_ = ~r.ok], os |-> r.os]

\* reserve() with the assignment of logical_size_ moved into the growth
\* branch: a size the file already holds no longer moves the watermark.
reserve_grow_only(m, o, size, expansion, sys, movable) ==
    IF size > m.file_size_
    THEN LET new_size == (size * expansion) \div EXPANSION_DENOMINATOR
             t == truncate(m, o, new_size, sys, movable)
         IN  IF ~t.ok
             THEN [mm |-> t.mm, os |-> t.os, thrown |-> TRUE]
             ELSE [mm |-> [t.mm EXCEPT !.logical_size_ = size], os |-> t.os,
                   thrown |-> FALSE]
    ELSE [mm |-> m, os |-> o, thrown |-> FALSE]

\* The body of memory_map::reserve(size, expansion), run while the allocator
\* holds the internal mutex: thrown says whether it left by the exception.
reserve(m, o, size, expansion, sys, movable) ==
    IF size > m.file_size_
    THEN LET new_size == (size * expansion) \div EXPANSION_DENOMINATOR
             t == truncate(m, o, new_size, sys, movable)
         IN  IF ~t.ok
             THEN [mm |-> t.mm, os |-> t.os, thrown |-> TRUE]
             ELSE [mm |-> [t.mm EXCEPT !.logical_size_ = size], os |-> t.os,
                   thrown |-> FALSE]
    ELSE [mm |-> [m EXCEPT !.logical_size_ = size], os |-> o, thrown |-> FALSE]

\* The body of memory_map::stop, run under REMAP_WRITE.
stop(m, o, sys) ==
    IF m.stopped_ THEN [mm |-> m, os |-> o, ret |-> TRUE]
    ELSE
    LET m1 == [m EXCEPT !.stopped_ = TRUE]
    IN  IF ~OsMsync(o, m1.data_, m1.logical_size_, sys)
        THEN [mm |-> m1, os |-> o, ret |-> FALSE]
        ELSE
        LET u == OsMunmap(o, m1.data_, m1.file_size_, sys)
        IN  IF ~u.ok THEN [mm |-> m1, os |-> u.os, ret |-> FALSE]
            ELSE
            LET f == OsFtruncate(u.os, m1.file_handle_, m1.logical_size_, sys)
            IN  IF ~f.ok THEN [mm |-> m1, os |-> f.os, ret |-> FALSE]
                ELSE IF ~sys.fsync THEN [mm |-> m1, os |-> f.os, ret |-> FALSE]
                ELSE LET c == OsClose(f.os, m1.file_handle_, sys)
                     IN  [mm |-> m1, os |-> c.os, ret |-> c.ok]

(***************************************************************************)
(* SpecMap: threads on one memory_map.                                     *)
(*                                                                         *)
(* The internal mutex is a shared/exclusive lock (specification 4.2 and    *)
(* 5): a View holds it shared from its creation to its drop; the allocator *)
(* of reserve() and the REMAP_WRITE of stop() hold it exclusively, so they *)
(* wait until no View is held, and REMAP_DOWNGRADE turns the allocator's   *)
(* exclusive hold into the shared hold of the View it returns. What runs   *)
(* under the exclusive hold is one step: no other thread can observe the   *)
(* object in between.                                                      *)
(***************************************************************************)
\* The exclusive side of the mutex can be taken: nobody holds it shared.
CanLockExclusive == internal_mutex_ = 0

\* The outcomes that matter to the constructor, to reserve and to stop: the
\* system calls an operation does not make are left to succeed.
ConstructOutcomes ==
    {s \in Outcomes : s.msync /\ s.munmap /\ s.ftruncate /\ s.fsync /\ s.close}
ReserveOutcomes ==
    {s \in Outcomes : s.fstat /\ s.msync /\ s.fsync /\ s.close}
StopOutcomes ==
    {s \in Outcomes : s.fstat /\ s.mmap = 1}

\* The state after memory_map's constructor, for every file and every
\* outcome of its system calls.
InitMap ==
    /\ maymove \in BOOLEAN
    /\ \E length \in Sizes, exists \in BOOLEAN, sys \in ConstructOutcomes :
          LET c == construct(length, exists, sys)
          IN  mm = c.mm /\ os = c.os
    /\ internal_mutex_ = 0
    /\ views = [t \in Threads |-> <<>>]
    /\ pc = [t \in Threads |-> "idle"]
    /\ ret = "none"
    /\ records = <<>>
    /\ chain = <<>>
    /\ pending = not_found
    /\ allocating = not_found
    /\ last = [op |-> "none"]
    /\ frame = [t \in Threads |-> NoFrame]

\* memory_map::access: REMAP_ACCESSOR takes the mutex shared and pins data_.
Access(t) ==
    /\ pc[t] = "idle"
    /\ Len(views[t]) < MaxViews
    /\ views' = [views EXCEPT ![t] = Append(@, mm.data_)]
    /\ internal_mutex_' = internal_mutex_ + 1
    /\ ret' = "view"
    /\ UNCHANGED <<mm, os, maymove, frame, pc, dbvars>>

\* A View goes out of scope: its shared hold is released.
Drop(t) ==
    /\ pc[t] = "idle"
    /\ \E i \in 1..Len(views[t]) :
          views' = [views EXCEPT ![t] =
                       SubSeq(@, 1, i - 1) \o SubSeq(@, i + 1, Len(@))]
    /\ internal_mutex_' = internal_mutex_ - 1
    /\ UNCHANGED <<mm, os, maymove, frame, pc, ret, dbvars>>

\* A thread calls memory_map::reserve(size): it waits for the allocator's
\* hold of the mutex.
ReserveCall(t) ==
    /\ pc[t] = "idle"
    /\ pc' = [pc EXCEPT ![t] = "reserve"]
    /\ UNCHANGED <<mm, os, maymove, frame, internal_mutex_, views, ret, dbvars>>

\* A thread calls memory_map::resize(size).
ResizeCall(t) ==
    /\ pc[t] = "idle"
    /\ pc' = [pc EXCEPT ![t] = "resize"]
    /\ UNCHANGED <<mm, os, maymove, frame, internal_mutex_, views, ret, dbvars>>

\* reserve() whose exception leaves without the allocator letting go of the
\* mutex.
ReserveRunKeepsMutex(t, size) ==
    /\ pc[t] \in {"reserve", "resize"}
    /\ CanLockExclusive
    /\ \E sys \in ReserveOutcomes :
          LET expansion == IF pc[t] = "reserve" THEN EXPANSION_NUMERATOR
                           ELSE EXPANSION_DENOMINATOR
              r == reserve(mm, os, size, expansion, sys, maymove)
          IN  /\ mm' = r.mm
              /\ os' = r.os
              /\ internal_mutex_' = internal_mutex_ + 1
              /\ IF r.thrown
                 THEN /\ ret' = "thrown"
                      /\ UNCHANGED views
                 ELSE /\ ret' = "view"
                      /\ views' = [views EXCEPT ![t] = Append(@, r.mm.data_)]
    /\ pc' = [pc EXCEPT ![t] = "idle"]
    /\ UNCHANGED <<maymove, frame, dbvars>>

\* memory_map::reserve(size, expansion) once the allocator holds the mutex:
\* either the exception leaves (the allocator is destroyed and lets go of
\* the mutex) or the downgraded allocator is returned as a View of data_.
ReserveRun(t, size) ==
    /\ pc[t] \in {"reserve", "resize"}
    /\ CanLockExclusive
    /\ \E sys \in ReserveOutcomes :
          LET expansion == IF pc[t] = "reserve" THEN EXPANSION_NUMERATOR
                           ELSE EXPANSION_DENOMINATOR
              r == reserve(mm, os, size, expansion, sys, maymove)
          IN  /\ mm' = r.mm
              /\ os' = r.os
              /\ IF r.thrown
                 THEN /\ ret' = "thrown"
                      /\ UNCHANGED <<views, internal_mutex_>>
                 ELSE /\ ret' = "view"
                      /\ views' = [views EXCEPT ![t] = Append(@, r.mm.data_)]
                      /\ internal_mutex_' = internal_mutex_ + 1
    /\ pc' = [pc EXCEPT ![t] = "idle"]
    /\ UNCHANGED <<maymove, frame, dbvars>>

\* A thread calls memory_map::stop (close).
StopCall(t) ==
    /\ pc[t] = "idle"
    /\ pc' = [pc EXCEPT ![t] = "stop"]
    /\ UNCHANGED <<mm, os, maymove, frame, internal_mutex_, views, ret, dbvars>>

\* stop() taking the mutex with REMAP_READ (as stopped() and size() do)
\* instead of REMAP_WRITE: it no longer waits for the Views to be dropped.
StopRunShared(t) ==
    /\ pc[t] = "stop"
    /\ \E sys \in StopOutcomes :
          LET r == stop(mm, os, sys)
          IN  /\ mm' = r.mm
              /\ os' = r.os
              /\ ret' = IF r.ret THEN "true" ELSE "false"
    /\ pc' = [pc EXCEPT ![t] = "idle"]
    /\ UNCHANGED <<maymove, frame, internal_mutex_, views, dbvars>>

\* memory_map::stop once REMAP_WRITE holds the mutex.
StopRun(t) ==
    /\ pc[t] = "stop"
    /\ CanLockExclusive
    /\ \E sys \in StopOutcomes :
          LET r == stop(mm, os, sys)
          IN  /\ mm' = r.mm
              /\ os' = r.os
              /\ ret' = IF r.ret THEN "true" ELSE "false"
    /\ pc' = [pc EXCEPT ![t] = "idle"]
    /\ UNCHANGED <<maymove, frame, internal_mutex_, views, dbvars>>

NextMap ==
    \E t \in Threads :
        \/ Access(t)
        \/ Drop(t)
        \/ ReserveCall(t)
        \/ ResizeCall(t)
        \/ \E size \in Sizes : ReserveRun(t, size)
        \/ StopCall(t)
        \/ StopRun(t)

SpecMap == InitMap /\ [][NextMap]_vars

\* SpecMap under fair scheduling: a thread whose reserve(), resize() or
\* stop() finds the mutex free again and again takes it in the end (strong
\* fairness: no caller is passed over for ever while the mutex keeps coming
\* free), and a View that can be dropped is dropped. Nothing makes a thread
\* stop asking for Views, and a thread may hold MaxViews of them at once.
FairMap ==
    \A t \in Threads :
        /\ SF_vars(\E size \in Sizes : ReserveRun(t, size))
        /\ SF_vars(StopRun(t))
        /\ WF_vars(Drop(t))

SpecMapFair == SpecMap /\ FairMap

(***************************************************************************)
(* The transaction database.                                               *)
(*                                                                         *)
(* A transaction is its hash, its inputs (the points they spend) and the   *)
(* number of its outputs; scripts are empty. Tx3 has the hash of Tx1 and   *)
(* another body: two records under one key, the specification's "stress    *)
(* mode". The output cache is left out: it never resolves a point.         *)
(***************************************************************************)
Point(hash, index) == [hash |-> hash, index |-> index]
null_point == Point(null_hash, unconfirmed)
Tx1 == [hash |-> 1, inputs |-> <<null_point>>, outputs |-> 2, version |-> 1]
Tx2 == [hash |-> 2, inputs |-> <<Point(1, 0), Point(1, 1)>>, outputs |-> 1,
        version |-> 1]
Tx3 == [hash |-> 1, inputs |-> <<null_point>>, outputs |-> 1, version |-> 2]
Txs == {Tx1, Tx2, Tx3}
\* A transaction and the one that spends its outputs.
Parents == {Tx1, Tx2}

States == {"invalid", "stored", "pooled", "indexed", "confirmed"}
Heights == 1..MaxHeight
Mtps == 1..MaxMtp
Positions == (0..MaxPosition) \cup {unconfirmed}

\* point.is_null()
is_null(point) == point.hash = null_hash /\ point.index = unconfirmed

\* tx.serialized_size(false, true) in the record format of lines 36-57, with
\* empty scripts and one byte counts: output_count, per output index_spend,
\* spender_height, value and script length, input_count, per input hash,
\* index, script length and sequence, locktime, version.
serialized_size(tx) ==
    1 + tx.outputs * (spend_size + 1) + 1 + Len(tx.inputs) * (32 + 2 + 1 + 4)
      + 1 + 1

\* The writer with the two 4 byte fields in each other's place.
store_writer_swapped(offset, size, tx, height, median_time_past, position, state) ==
    [offset |-> offset, size |-> size, hash |-> tx.hash, tx |-> tx,
     height |-> median_time_past, position |-> position % 65536,
     state |-> state, median_time_past |-> height,
     spender |-> [i \in 1..tx.outputs |-> not_spent]]

\* The writer of store(): the record's bytes, the position narrowed to 16
\* bits; tx.to_data writes every output unspent.
store_writer(offset, size, tx, height, median_time_past, position, state) ==
    [offset |-> offset, size |-> size, hash |-> tx.hash, tx |-> tx,
     height |-> height, position |-> position % 65536, state |-> state,
     median_time_past |-> median_time_past,
     spender |-> [i \in 1..tx.outputs |-> not_spent]]

\* The little-endian field of that width at byte start of a file cut to the
\* given length: the bytes at and after the new end read as zero.
cut(value, width, start, length) ==
    IF start + width <= length THEN value
    ELSE IF start >= length THEN 0
    ELSE IF value = not_spent THEN 256 ^ (length - start) - 1
    ELSE value % (256 ^ (length - start))

\* ftruncate() to a length below the file's: the records' bytes from the
\* new end on are gone and read as zero, field by field in the record
\* format of lines 36-57 (state 0 is invalid, a zero count ends the list,
\* a hash short of a byte names no transaction).
shorten(recs, length) ==
    [i \in 1..Len(recs) |->
        LET r == recs[i]
            outputs_at == r.offset + metadata_size + 1
            outs == IF outputs_at <= length THEN r.tx.outputs ELSE 0
            inputs_at == outputs_at + r.tx.outputs * (spend_size + 1) + 1
            ins == IF inputs_at <= length THEN Len(r.tx.inputs) ELSE 0
            input_at(j) == inputs_at + (j - 1) * (32 + 2 + 1 + 4)
        IN  IF r.offset + r.size <= length THEN r
            ELSE [offset |-> r.offset, size |-> r.size, hash |-> r.hash,
                  height |-> cut(r.height, height_size, r.offset, length),
                  position |-> cut(r.position, position_size,
                                   r.offset + height_size, length),
                  state |-> IF r.offset + height_size + position_size
                                  + state_size <= length
                            THEN r.state ELSE "invalid",
                  median_time_past |->
                      cut(r.median_time_past, median_time_past_size,
                          r.offset + height_size + position_size + state_size,
                          length),
                  spender |-> [k \in 1..outs |->
                      cut(r.spender[k], height_size,
                          outputs_at + (k - 1) * (spend_size + 1)
                              + index_spend_size, length)],
                  tx |-> [hash |-> r.tx.hash, outputs |-> outs,
                          inputs |-> [j \in 1..ins |->
                              Point(IF input_at(j) + 32 <= length
                                    THEN r.tx.inputs[j].hash ELSE null_hash,
                                    cut(r.tx.inputs[j].index, 2,
                                        input_at(j) + 32, length))],
                          version |-> 0]]]

(***************************************************************************)
(* The hash table (specification 4.3 and 4.4): elements are addressed by   *)
(* their offset, find(hash) walks the chain from its head, link() prepends.*)
(***************************************************************************)
\* hash_table_.find(link): the index in recs of the record at offset link,
\* 0 when there is none.
find_link(recs, link) ==
    IF link # not_found /\ \E i \in 1..Len(recs) : recs[i].offset = link
    THEN CHOOSE i \in 1..Len(recs) : recs[i].offset = link
    ELSE 0

\* hash_table_.find(hash): the first linked element with that key.
find_hash(recs, ch, hash) ==
    LET hits == {k \in 1..Len(ch) :
                    /\ find_link(recs, ch[k]) # 0
                    /\ recs[find_link(recs, ch[k])].hash = hash}
    IN  IF hits = {} THEN 0
        ELSE find_link(recs, ch[CHOOSE k \in hits : \A j \in hits : k <= j])

\* The records an allocation of [offset, offset + size) overwrites.
Overlaps(r, offset, size) ==
    r.offset < offset + size /\ offset < r.offset + r.size

\* The allocator's create(key, writer, size) from its call of reserve() on:
\* with the offset it took at the watermark before, it reserves the bytes
\* up to offset + size in the file (which may throw, may leave the file
\* shorter, and sets the watermark to offset + size whatever it was) and
\* runs the writer over them. What the new bytes overwrite is a record no
\* more.
create(recs, ch, m, o, offset, tx, height, mtp, position, state, sys, movable) ==
    LET size == metadata_size + serialized_size(tx)
        r == reserve(m, o, offset + size, EXPANSION_NUMERATOR, sys, movable)
        left == shorten(recs, r.os.length)
        kept == SelectSeq(left, LAMBDA x : ~Overlaps(x, offset, size))
        keptch == SelectSeq(ch, LAMBDA l : find_link(kept, l) # 0)
    IN  IF r.thrown
        THEN [recs |-> left, chain |-> ch, mm |-> r.mm, os |-> r.os,
              link |-> not_found, thrown |-> TRUE]
        ELSE [recs |-> Append(kept, store_writer(offset, size, tx, height,
                                  mtp, position, state)),
              chain |-> keptch, mm |-> r.mm, os |-> r.os,
              link |-> offset, thrown |-> FALSE]

\* hash_table_.link(next): the element becomes the head of its chain.
link(ch, next) == <<next>> \o ch

(***************************************************************************)
(* transaction_database's methods, as functions of the records and the     *)
(* index.                                                                  *)
(***************************************************************************)
\* update() whose writer stops before median_time_past.
update_short(recs, at, height, median_time_past, position, state) ==
    LET i == find_link(recs, at)
    IN  IF i = 0 THEN [recs |-> recs, ok |-> FALSE]
        ELSE [recs |-> [recs EXCEPT ![i].height = height,
                                    ![i].position = position % 65536,
                                    ![i].state = state],
              ok |-> TRUE]

\* transaction_database::update
update(recs, at, height, median_time_past, position, state) ==
    LET i == find_link(recs, at)
    IN  IF i = 0 THEN [recs |-> recs, ok |-> FALSE]
        ELSE [recs |-> [recs EXCEPT ![i].height = height,
                                    ![i].position = position % 65536,
                                    ![i].state = state,
                                    ![i].median_time_past = median_time_past],
              ok |-> TRUE]

\* What the reader of spend() reads from element i under the shared
\* metadata mutex: height, state and the number of outputs.
spend_reader(recs, i) ==
    [height |-> recs[i].height, state |-> recs[i].state,
     outputs |-> recs[i].tx.outputs]

\* The tests of spend() without the one of the previous transaction's height.
spendable_any_height(read, point, spender_height) ==
    /\ read.state = "confirmed"
    /\ point.index < read.outputs

\* The tests of spend() on what its reader read: the previous transaction is
\* confirmed at or below the spender height and has the output.
spendable(read, point, spender_height) ==
    /\ ~(read.state # "confirmed" \/ read.height > spender_height)
    /\ ~(point.index >= read.outputs)

\* The writer of spend() without its seek: the 4 bytes land on the height.
spend_writer_no_seek(recs, i, point, spender_height) ==
    [recs EXCEPT ![i].height = spender_height]

\* The writer of spend(): it seeks the output and writes its spender_height
\* under the unique metadata mutex.
spend_writer(recs, i, point, spender_height) ==
    [recs EXCEPT ![i].spender[point.index + 1] = spender_height]

\* transaction_database::spend when no other thread runs between its reader
\* and its writer.
spend(recs, ch, point, spender_height) ==
    IF is_null(point) THEN [recs |-> recs, ok |-> TRUE]
    ELSE
    LET i == find_hash(recs, ch, point.hash)
    IN  IF i = 0 THEN [recs |-> recs, ok |-> FALSE]
        ELSE IF ~spendable(spend_reader(recs, i), point, spender_height)
        THEN [recs |-> recs, ok |-> FALSE]
        ELSE [recs |-> spend_writer(recs, i, point, spender_height),
              ok |-> TRUE]

\* The loop of confirm() and unconfirm() over the inputs from the k-th on:
\* it stops at the first spend that fails.
RECURSIVE spend_inputs(_, _, _, _, _)
spend_inputs(recs, ch, inputs, k, spender_height) ==
    IF k > Len(inputs) THEN [recs |-> recs, ok |-> TRUE]
    ELSE LET s == spend(recs, ch, inputs[k], spender_height)
         IN  IF ~s.ok THEN s
             ELSE spend_inputs(s.recs, ch, inputs, k + 1, spender_height)

\* What a confirm() call carries from its entry to its return: the record,
\* the next input of the loop, the height its spends write, and the
\* arguments of its update().
confirm_call(at, height, median_time_past, position) ==
    [op |-> "confirm", link |-> at, k |-> 1, spender_height |-> height,
     height |-> height, median_time_past |-> median_time_past,
     position |-> position, state |-> "confirmed"]

\* An unconfirm() call that does not unspend the previous outputs.
unconfirm_call_no_unspend(recs, at) ==
    [op |-> "unconfirm", link |-> at,
     k |-> Len(recs[find_link(recs, at)].tx.inputs) + 1,
     spender_height |-> not_spent, height |-> unverified,
     median_time_past |-> no_time, position |-> unconfirmed,
     state |-> "pooled"]

\* An unconfirm() call that leaves the record's position as it is.
unconfirm_call_keep_position(recs, at) ==
    [op |-> "unconfirm", link |-> at, k |-> 1,
     spender_height |-> not_spent, height |-> unverified,
     median_time_past |-> no_time,
     position |-> recs[find_link(recs, at)].position, state |-> "pooled"]

\* What an unconfirm() call carries: unspend(point) is spend(point,
\* not_spent), and its update() makes the record pooled.
unconfirm_call(recs, at) ==
    [op |-> "unconfirm", link |-> at, k |-> 1,
     spender_height |-> not_spent, height |-> unverified,
     median_time_past |-> no_time, position |-> unconfirmed,
     state |-> "pooled"]

\* The call f from its loop to its return when no other thread runs in
\* between: the spends of the inputs left, then update().
finish(recs, ch, f) ==
    LET s == spend_inputs(recs, ch, recs[find_link(recs, f.link)].tx.inputs,
                          f.k, f.spender_height)
    IN  IF ~s.ok THEN s
        ELSE update(s.recs, f.link, f.height, f.median_time_past,
                    f.position, f.state)

\* transaction_database::confirm when no other thread runs between its
\* entry and its return.
confirm(recs, ch, at, height, median_time_past, position) ==
    IF find_link(recs, at) = 0 THEN [recs |-> recs, ok |-> FALSE]
    ELSE finish(recs, ch,
                confirm_call(at, height, median_time_past, position))

\* unconfirm() that also marks the record's own outputs unspent.
unconfirm_reset_outputs(recs, ch, at) ==
    LET i == find_link(recs, at)
    IN  IF i = 0 THEN [recs |-> recs, ok |-> FALSE]
        ELSE LET own == [recs EXCEPT ![i].spender =
                            [j \in 1..recs[i].tx.outputs |-> not_spent]]
             IN  IF ~finish(recs, ch, unconfirm_call(recs, at)).ok
                 THEN finish(recs, ch, unconfirm_call(recs, at))
                 ELSE finish(own, ch, unconfirm_call(recs, at))

\* transaction_database::unconfirm when no other thread runs between its
\* entry and its return.
unconfirm(recs, ch, at) ==
    IF find_link(recs, at) = 0 THEN [recs |-> recs, ok |-> FALSE]
    ELSE finish(recs, ch, unconfirm_call(recs, at))

\* transaction_database::get(offset) and get(hash): the record found, as the
\* result's accessors report it; NoRecord for a result that tests false.
NoRecord == [offset |-> not_found]
get_link(recs, at) ==
    IF find_link(recs, at) = 0 THEN NoRecord ELSE recs[find_link(recs, at)]
get_hash(recs, ch, hash) ==
    IF find_hash(recs, ch, hash) = 0 THEN NoRecord
    ELSE recs[find_hash(recs, ch, hash)]

\* The output metadata as the caller defaults it.
DefaultPrevout ==
    [height |-> 0, median_time_past |-> 0, spent |-> FALSE,
     confirmed |-> FALSE, coinbase |-> FALSE]

\* cache_.populate(point, fork_height): nothing adds to the cache (the only
\* cache_.add is commented out in confirm), so it resolves no point.
populate(point, fork_height) == FALSE

\* prevout.cache.metadata.spent(fork_height), as specification 4.5 step 8
\* gives it: the spender's height is at or below the fork height.
spent(spender_height, fork_height) == spender_height <= fork_height

\* What the result of get(hash) holds of element i: the metadata that its
\* constructor reads under the shared metadata mutex.
result_reader(recs, i) ==
    IF i = 0 THEN NoRecord
    ELSE [height |-> recs[i].height, position |-> recs[i].position,
          state |-> recs[i].state,
          median_time_past |-> recs[i].median_time_past]

\* result.output(index) on element i: whether the record has the output,
\* and the spender_height read under the shared metadata mutex.
output_reader(recs, i, index) ==
    IF i = 0 \/ index >= recs[i].tx.outputs
    THEN [valid |-> FALSE, spender_height |-> not_spent]
    ELSE [valid |-> TRUE, spender_height |-> recs[i].spender[index + 1]]

\* get_output() that takes the record for confirmed whatever the fork height.
get_output_any_fork(point, fork_height, element, result, output) ==
    LET zero == DefaultPrevout
    IN  IF is_null(point)
        THEN [ret |-> FALSE, prevout |-> zero, at |-> "find"]
        ELSE IF element = 0
        THEN [ret |-> FALSE, prevout |-> zero, at |-> "find"]
        ELSE IF result.height = 0
        THEN [ret |-> FALSE, prevout |-> zero, at |-> "result"]
        ELSE LET relevant == result.height <= fork_height
                 for_pool == fork_height = max_size_t
                 confirmed ==
                    \/ result.state = "indexed" /\ ~for_pool
                    \/ result.state = "confirmed"
             IN  IF ~for_pool /\ ~confirmed
                 THEN [ret |-> FALSE, prevout |-> zero, at |-> "result"]
                 ELSE IF ~output.valid
                 THEN [ret |-> FALSE, prevout |-> zero, at |-> "output"]
                 ELSE [ret |-> TRUE, at |-> "output",
                       prevout |->
                          [height |-> result.height,
                           median_time_past |-> result.median_time_past,
                           spent |-> confirmed /\
                              spent(output.spender_height, fork_height),
                           confirmed |-> confirmed,
                           coinbase |-> result.position = 0]]

\* get_output() that populates the metadata before the genesis carve-out.
get_output_early_populate(point, fork_height, element, result, output) ==
    LET zero == DefaultPrevout
    IN  IF is_null(point)
        THEN [ret |-> FALSE, prevout |-> zero, at |-> "find"]
        ELSE IF element = 0
        THEN [ret |-> FALSE, prevout |-> zero, at |-> "find"]
        ELSE IF result.height = 0
        THEN [ret |-> FALSE, at |-> "result",
              prevout |-> [zero EXCEPT !.median_time_past =
                                          result.median_time_past]]
        ELSE LET relevant == result.height <= fork_height
                 for_pool == fork_height = max_size_t
                 confirmed ==
                    \/ result.state = "indexed" /\ ~for_pool
                    \/ result.state = "confirmed" /\ relevant
             IN  IF ~for_pool /\ ~confirmed
                 THEN [ret |-> FALSE, prevout |-> zero, at |-> "result"]
                 ELSE IF ~output.valid
                 THEN [ret |-> FALSE, prevout |-> zero, at |-> "output"]
                 ELSE [ret |-> TRUE, at |-> "output",
                       prevout |->
                          [height |-> result.height,
                           median_time_past |-> result.median_time_past,
                           spent |-> confirmed /\
                              spent(output.spender_height, fork_height),
                           confirmed |-> confirmed,
                           coinbase |-> result.position = 0]]

\* transaction_database::get_output as a function of what it reads: the
\* element that find(point.hash()) returns (0: none), the metadata in the
\* result and the output. It gives the return value, the metadata of the
\* point after the call, and the read after which the call returns (at):
\* what is read later than that has no part in the outcome.
get_output(point, fork_height, element, result, output) ==
    LET zero == DefaultPrevout
    IN  IF is_null(point)
        THEN [ret |-> FALSE, prevout |-> zero, at |-> "find"]
        ELSE IF populate(point, fork_height)
        THEN [ret |-> TRUE, prevout |-> zero, at |-> "find"]
        ELSE IF element = 0
        THEN [ret |-> FALSE, prevout |-> zero, at |-> "find"]
        ELSE IF result.height = 0
        THEN [ret |-> FALSE, prevout |-> zero, at |-> "result"]
        ELSE LET relevant == result.height <= fork_height
                 for_pool == fork_height = max_size_t
                 confirmed ==
                    \/ result.state = "indexed" /\ ~for_pool
                    \/ result.state = "confirmed" /\ relevant
             IN  IF ~for_pool /\ ~confirmed
                 THEN [ret |-> FALSE, prevout |-> zero, at |-> "result"]
                 ELSE IF ~output.valid
                 THEN [ret |-> FALSE, prevout |-> zero, at |-> "output"]
                 ELSE [ret |-> TRUE, at |-> "output",
                       prevout |->
                          [height |-> result.height,
                           median_time_past |-> result.median_time_past,
                           spent |-> confirmed /\
                              spent(output.spender_height, fork_height),
                           confirmed |-> confirmed,
                           coinbase |-> result.position = 0]]

(***************************************************************************)
(* SpecDb: store, pool, confirm and unconfirm, each followed step by step. *)
(* A store() or pool() call is three steps: the allocator takes its       *)
(* offset, next.create() reserves and writes once reserve() holds the      *)
(* internal mutex, and hash_table_.link(next); no lock is held from one to *)
(* the next, and any step of another thread can fall between two steps of  *)
(* a call. The allocator has a single writer (specification 4.3): one      *)
(* store() is in flight at a time.                                         *)
(***************************************************************************)
\* The outcome in which every system call succeeds and mmap returns address 1.
AllFine ==
    [fstat |-> TRUE, msync |-> TRUE, munmap |-> TRUE, ftruncate |-> TRUE,
     mmap |-> 1, fsync |-> TRUE, close |-> TRUE]

\* The outcomes of store()'s growth of the file that the database tells
\* apart: it grows, ftruncate fails, the new mapping fails.
DbOutcomes ==
    {AllFine, [AllFine EXCEPT !.ftruncate = FALSE],
     [AllFine EXCEPT !.mmap = MAP_FAILED]}

\* The links a caller holds: the offsets of the records, and not_found.
Links == {records[i].offset : i \in 1..Len(records)} \cup {not_found}

\* The database is open over a file of DbFileLength bytes (the table's
\* header) that was mapped with success, and holds no record.
InitDb ==
    /\ maymove \in BOOLEAN
    /\ LET c == construct(DbFileLength, TRUE, AllFine)
       IN  mm = c.mm /\ os = c.os
    /\ internal_mutex_ = 0
    /\ views = [t \in Threads |-> <<>>]
    /\ pc = [t \in Threads |-> "idle"]
    /\ ret = "none"
    /\ records = <<>>
    /\ chain = <<>>
    /\ pending = not_found
    /\ allocating = not_found
    /\ last = [op |-> "none"]
    /\ frame = [t \in Threads |-> NoFrame]

\* Every access to a record goes through a View of the mapping: a step that
\* reads or writes a record through a View of nullptr kills the process,
\* which takes no step from there.
Usable == mm.data_ # nullptr

\* The calls in flight after thread t (0: the thread inside store()) has
\* written to the records or to the index: each of the others has no longer
\* run alone.
Disturb(fr, t) ==
    [u \in Threads |->
        IF u # t /\ fr[u] # NoFrame THEN [fr[u] EXCEPT !.alone = FALSE]
        ELSE fr[u]]

\* transaction_database::store and pool up to the allocator's request of
\* the internal mutex in memory_map::reserve (line 235): the single writer
\* enters next.create(...), whose allocator takes offset := logical_size_.
\* Nothing of the file is read or written yet, and until reserve() holds
\* the mutex other callers' reserve() and resize() run. The call's
\* arguments are its own and no other thread sees them: they appear with
\* the step that uses them, StoreCreate.
StoreAllocate ==
    /\ Len(records) < MaxRecords
    /\ mm.logical_size_ <= MaxFileSize
    /\ pending = not_found
    /\ allocating = not_found
    /\ allocating' = mm.logical_size_
    /\ last' = [op |-> "allocate"]
    /\ UNCHANGED <<mm, os, maymove, frame, internal_mutex_, views, pc, ret,
                   records, chain, pending>>

\* transaction_database::store from the allocator's reserve(offset + size)
\* to the end of next.create(...): reserve() holds the mutex, grows the
\* file when offset + size is above file_size_, sets logical_size_, and
\* the writer fills the bytes at the offset taken before. The call leaves
\* here by reserve()'s exception when the file cannot grow, which is what
\* happens every time once data_ is nullptr. The new record is there for
\* find(offset) from this step on, and not yet for find(hash).
StoreCreate(tx, height, median_time_past, position, state, sys) ==
    /\ allocating # not_found
    /\ LET c == create(records, chain, mm, os, allocating, tx, height,
                       median_time_past, position, state, sys, maymove)
       IN  /\ mm' = c.mm
           /\ os' = c.os
           /\ records' = c.recs
           /\ chain' = c.chain
           /\ pending' = c.link
           /\ allocating' = not_found
           /\ frame' = IF c.recs = records THEN frame
                       ELSE Disturb(frame, 0)
           /\ last' = [op |-> IF c.thrown THEN "store" ELSE "create",
                       link |-> c.link, tx |-> tx, height |-> height,
                       median_time_past |-> median_time_past,
                       position |-> position, state |-> state,
                       ret |-> IF c.thrown THEN "thrown" ELSE "none",
                       alone |-> last.op = "allocate"]
    /\ UNCHANGED <<maymove, internal_mutex_, views, pc, ret>>

\* transaction_database::pool from the allocator's reserve(offset + size)
\* to the end of next.create(...).
PoolCreate(tx, forks, sys) ==
    StoreCreate(tx, forks, no_time, unconfirmed, "pooled", sys)

\* store() from hash_table_.link(next) to its return: the element becomes
\* the head of its chain. The call has run alone when no step of another
\* thread fell between its steps.
StoreLink ==
    /\ Usable
    /\ pending # not_found
    /\ chain' = link(chain, pending)
    /\ pending' = not_found
    /\ frame' = Disturb(frame, 0)
    /\ last' = IF last.op = "create"
               THEN [last EXCEPT !.op = "store", !.ret = "true"]
               ELSE [op |-> "store", link |-> pending, ret |-> "true",
                     alone |-> FALSE]
    /\ UNCHANGED <<mm, os, maymove, internal_mutex_, views, pc, ret, records,
                   allocating>>

(***************************************************************************)
(* confirm() and unconfirm() step by step. A step is what one thread does  *)
(* up to one access to the shared state: the find of spend(), the reader   *)
(* of spend() (shared metadata mutex), the writer of spend() (unique), the *)
(* writer of update() (unique). Between two steps of a thread any other    *)
(* thread can run, a whole call of it or a step of its own call.           *)
(***************************************************************************)
\* A call's frame: what it carries (confirm_call, unconfirm_call), where
\* it is, whether it has run alone so far, and whether it has changed a
\* record.
Enter(f) == f @@ [at |-> "spend", alone |-> TRUE, changed |-> FALSE]

\* The frames after thread t's step, which leaves t's call at f.
Step(t, f) ==
    [(IF records' # records THEN Disturb(frame, t) ELSE frame)
        EXCEPT ![t] = f]

\* Thread t leaves its call f with that value.
Return(t, f, value) ==
    /\ frame' = Step(t, NoFrame)
    /\ last' = [op |-> f.op, link |-> f.link, height |-> f.height,
                median_time_past |-> f.median_time_past,
                position |-> f.position,
                ret |-> IF value THEN "true" ELSE "false",
                alone |-> f.alone,
                changed |-> f.changed \/ records' # records]

\* confirm(link, height, median_time_past, position) up to the loop over
\* the inputs: get(link) and the test of the result.
ConfirmCall(t, at, height, median_time_past, position) ==
    /\ Usable
    /\ frame[t] = NoFrame
    /\ UNCHANGED <<mm, os, maymove, internal_mutex_, views, pc, ret,
                   dbvars_file>>
    /\ LET f == Enter(confirm_call(at, height, median_time_past, position))
       IN  IF find_link(records, at) = 0
           THEN Return(t, f, FALSE)
           ELSE /\ frame' = Step(t, f)
                /\ last' = [op |-> "step"]

\* unconfirm(link) up to the loop over the inputs.
UnconfirmCall(t, at) ==
    /\ Usable
    /\ frame[t] = NoFrame
    /\ UNCHANGED <<mm, os, maymove, internal_mutex_, views, pc, ret,
                   dbvars_file>>
    /\ IF find_link(records, at) = 0
       THEN Return(t, Enter([op |-> "unconfirm", link |-> at,
                             height |-> unverified,
                             median_time_past |-> no_time,
                             position |-> unconfirmed]), FALSE)
       ELSE /\ frame' = Step(t, Enter(unconfirm_call(records, at)))
            /\ last' = [op |-> "step"]

\* The inputs of the record the thread's call is about.
Inputs(t) == get_link(records, frame[t].link).tx.inputs

\* spend() from its entry to hash_table_.find(point.hash()), the loop of
\* the call having read the point from its record: a null point returns
\* true, a missing element false.
SpendFind(t) ==
    /\ Usable
    /\ frame[t].at = "spend"
    /\ frame[t].k <= Len(Inputs(t))
    /\ UNCHANGED <<mm, os, maymove, internal_mutex_, views, pc, ret,
                   dbvars_file>>
    /\ LET f == frame[t]
           point == Inputs(t)[f.k]
           i == find_hash(records, chain, point.hash)
       IN  IF is_null(point)
           THEN /\ frame' = Step(t, [f EXCEPT !.k = @ + 1])
                /\ last' = [op |-> "step"]
           ELSE IF i = 0
           THEN Return(t, f, FALSE)
           ELSE /\ frame' = Step(t, [element |-> i, point |-> point]
                                        @@ [f EXCEPT !.at = "read"])
                /\ last' = [op |-> "step"]

\* The reader of spend(): height, state and the number of outputs of the
\* element are read under the shared metadata mutex, which is then let go.
SpendRead(t) ==
    /\ Usable
    /\ frame[t].at = "read"
    /\ UNCHANGED <<mm, os, maymove, internal_mutex_, views, pc, ret,
                   dbvars_file>>
    /\ frame' = Step(t, [read |-> spend_reader(records, frame[t].element)]
                            @@ [frame[t] EXCEPT !.at = "write"])
    /\ last' = [op |-> "step"]

\* The call f with the spend() of its k-th input done.
NextInput(f) ==
    [op |-> f.op, link |-> f.link, k |-> f.k + 1,
     spender_height |-> f.spender_height, height |-> f.height,
     median_time_past |-> f.median_time_past, position |-> f.position,
     state |-> f.state, at |-> "spend", alone |-> f.alone,
     changed |-> f.changed]

\* spend() from the end of its reader on: the tests on what the reader
\* read, which return false without another look at the file, then the
\* writer, which takes the metadata mutex again (unique) and writes
\* spender_height.
SpendWrite(t) ==
    /\ frame[t].at = "write"
    /\ UNCHANGED <<mm, os, maymove, internal_mutex_, views, pc, ret,
                   chain, pending, allocating>>
    /\ LET f == frame[t]
       IN  IF ~spendable(f.read, f.point, f.spender_height)
           THEN UNCHANGED records /\ Return(t, f, FALSE)
           ELSE /\ Usable
                /\ records' = spend_writer(records, f.element, f.point,
                                           f.spender_height)
                /\ frame' = Step(t, [NextInput(f) EXCEPT !.changed =
                                        @ \/ records' # records])
                /\ last' = [op |-> "step"]

\* The update() that ends confirm() and unconfirm(): its writer holds the
\* metadata mutex (unique) over the 11 bytes.
UpdateRun(t) ==
    /\ Usable
    /\ frame[t].at = "spend"
    /\ frame[t].k > Len(Inputs(t))
    /\ UNCHANGED <<mm, os, maymove, internal_mutex_, views, pc, ret,
                   chain, pending, allocating>>
    /\ LET f == frame[t]
           u == update(records, f.link, f.height, f.median_time_past,
                       f.position, f.state)
       IN  /\ records' = u.recs
           /\ Return(t, f, u.ok)

\* The states store() is called with here; pool() stores the pooled ones.
StoreStates == {"invalid", "stored", "confirmed"}

NextDb ==
    \/ StoreAllocate
    \/ \E tx \in Txs, position \in Positions, state \in StoreStates :
          StoreCreate(tx, MaxHeight, MaxMtp, position, state, AllFine)
    \/ \E tx \in Txs, sys \in DbOutcomes : PoolCreate(tx, unverified, sys)
    \/ StoreLink
    \/ \E t \in Steppers, at \in Links, height \in Heights, mtp \in Mtps,
          position \in Positions \ {unconfirmed} :
          ConfirmCall(t, at, height, mtp, position)
    \/ \E t \in Steppers, at \in Links : UnconfirmCall(t, at)
    \/ \E t \in Steppers : SpendFind(t)
    \/ \E t \in Steppers : SpendRead(t)
    \/ \E t \in Steppers : SpendWrite(t)
    \/ \E t \in Steppers : UpdateRun(t)

SpecDb == InitDb /\ [][NextDb]_vars

(***************************************************************************)
(* SpecFile: the single writer's store() in its three steps, other         *)
(* callers' reserve() and resize() of the file in between (also between    *)
(* the allocator's read of logical_size_ and its reserve()), and the       *)
(* process dying and the database being opened again over the file as it   *)
(* is on disk.                                                             *)
(***************************************************************************)
FileSizes == {k * SizeStep : k \in 0..MaxSteps}

\* Another caller's memory_map::reserve(size) or resize(size) on the file;
\* the View it returns is dropped at once. A call that finds file_size_
\* zero after a failed growth truncates to the size asked for, which may be
\* below the records written.
ReserveFile(size, expansion) ==
    /\ \E sys \in DbOutcomes :
          LET r == reserve(mm, os, size, expansion, sys, maymove)
          IN  /\ mm' = r.mm
              /\ os' = r.os
              /\ records' = shorten(records, r.os.length)
              /\ last' = [op |-> "reserve", link |-> not_found,
                          ret |-> IF r.thrown THEN "thrown" ELSE "view"]
    /\ UNCHANGED <<maymove, frame, internal_mutex_, views, pc, ret, chain,
                   pending, allocating>>

\* The process dies (its mapping and its descriptor go with it, the pages
\* it wrote stay in the file) and the database is opened again.
CrashReopen ==
    /\ LET c == construct(os.length, TRUE, AllFine)
       IN  mm' = c.mm /\ os' = c.os
    /\ pending' = not_found
    /\ allocating' = not_found
    /\ last' = [op |-> "reopen", link |-> pending, ret |-> "true"]
    /\ UNCHANGED <<maymove, frame, internal_mutex_, views, pc, ret, records, chain>>

NextFile ==
    \/ StoreAllocate
    \/ \E tx \in {Tx1, Tx3}, sys \in ReserveOutcomes :
          StoreCreate(tx, unverified, no_time, unconfirmed, "stored", sys)
    \/ StoreLink
    \/ \E size \in FileSizes : ReserveFile(size, EXPANSION_NUMERATOR)
    \/ \E size \in FileSizes : ReserveFile(size, EXPANSION_DENOMINATOR)
    \/ CrashReopen

SpecFile == InitDb /\ [][NextFile]_vars

(***************************************************************************)
(* SpecOut: get_output(), step by step (the find, the read of the          *)
(* metadata, the read of the output), beside the steps of pool, store,     *)
(* confirm and unconfirm calls of other threads; records can be confirmed  *)
(* at height 0 (the genesis block) here.                                   *)
(***************************************************************************)
GenesisHeights == 0..MaxHeight
ForkHeights == (1..MaxHeight) \cup {max_size_t}
\* The points asked for: the null point, an output of Tx2 (whose hash no
\* record has until Tx2 is stored), an output of Tx1 and an index that Tx1
\* does not have.
Points == {null_point, Point(2, 0), Point(1, 0), Point(1, 2)}

\* The threads that call get_output().
Readers == Threads \ Steppers

\* What get_output() comes to for the call f with what the records hold now.
Reads(f) ==
    get_output(f.point, f.fork_height, f.element, f.result,
               output_reader(records, f.element, f.point.index))

\* Thread t's get_output() call f returns what g says.
GetOutputReturn(t, f, g) ==
    /\ frame' = [frame EXCEPT ![t] = NoFrame]
    /\ last' = [op |-> "get_output", point |-> f.point,
                fork_height |-> f.fork_height, ret |-> g.ret,
                prevout |-> g.prevout, alone |-> f.alone]

\* get_output(point, fork_height) up to hash_table_.find(point.hash()): a
\* null point returns false before anything is read from the file.
GetOutputCall(t, point, fork_height) ==
    /\ frame[t] = NoFrame
    /\ is_null(point) \/ Usable
    /\ UNCHANGED <<mm, os, maymove, internal_mutex_, views, pc, ret,
                   dbvars_file>>
    /\ LET i == IF is_null(point) THEN 0
                ELSE find_hash(records, chain, point.hash)
           f == [op |-> "get_output", point |-> point,
                 fork_height |-> fork_height, element |-> i,
                 result |-> NoRecord, at |-> "result", alone |-> TRUE]
           g == Reads([f EXCEPT !.result = result_reader(records, i)])
       IN  IF g.at = "find"
           THEN GetOutputReturn(t, f, g)
           ELSE /\ frame' = [frame EXCEPT ![t] = f]
                /\ last' = [op |-> "step"]

\* The result that get(point.hash()) makes of the element: its constructor
\* reads the metadata under the shared metadata mutex; then the tests of
\* get_output() on height and state.
GetOutputResult(t) ==
    /\ Usable
    /\ frame[t].at = "result"
    /\ UNCHANGED <<mm, os, maymove, internal_mutex_, views, pc, ret,
                   dbvars_file>>
    /\ LET f == [frame[t] EXCEPT
                    !.result = result_reader(records, frame[t].element),
                    !.at = "output"]
       IN  IF Reads(f).at = "result"
           THEN GetOutputReturn(t, f, Reads(f))
           ELSE /\ frame' = [frame EXCEPT ![t] = f]
                /\ last' = [op |-> "step"]

\* result.output(point.index()), which reads the output under the shared
\* metadata mutex, and the rest of get_output().
GetOutputOutput(t) ==
    /\ Usable
    /\ frame[t].at = "output"
    /\ UNCHANGED <<mm, os, maymove, internal_mutex_, views, pc, ret,
                   dbvars_file>>
    /\ GetOutputReturn(t, frame[t], Reads(frame[t]))

NextOut ==
    \/ StoreAllocate
    \/ \E tx \in Parents, sys \in DbOutcomes :
          PoolCreate(tx, unverified, sys)
    \/ StoreCreate(Tx1, MaxHeight, no_time, 0, "indexed", AllFine)
    \/ StoreLink
    \/ \E t \in Readers, point \in Points, fork_height \in ForkHeights :
          GetOutputCall(t, point, fork_height)
    \/ \E t \in Readers : GetOutputResult(t)
    \/ \E t \in Readers : GetOutputOutput(t)
    \/ \E t \in Steppers, at \in Links, height \in GenesisHeights,
          mtp \in Mtps : ConfirmCall(t, at, height, mtp, 0)
    \/ \E t \in Steppers, at \in Links : UnconfirmCall(t, at)
    \/ \E t \in Steppers : SpendFind(t)
    \/ \E t \in Steppers : SpendRead(t)
    \/ \E t \in Steppers : SpendWrite(t)
    \/ \E t \in Steppers : UpdateRun(t)

SpecOut == InitDb /\ [][NextOut]_vars

(***************************************************************************)
(* SpecConc: every thread can be inside confirm() or unconfirm(), each at  *)
(* a step of its own, beside the thread that is inside pool().             *)
(***************************************************************************)
NextConc ==
    \/ StoreAllocate
    \/ \E tx \in Parents, sys \in DbOutcomes :
          PoolCreate(tx, unverified, sys)
    \/ StoreLink
    \/ \E t \in Threads, at \in Links, height \in Heights, mtp \in Mtps :
          ConfirmCall(t, at, height, mtp, 0)
    \/ \E t \in Threads, at \in Links : UnconfirmCall(t, at)
    \/ \E t \in Threads : SpendFind(t)
    \/ \E t \in Threads : SpendRead(t)
    \/ \E t \in Threads : SpendWrite(t)
    \/ \E t \in Threads : UpdateRun(t)

SpecConc == InitDb /\ [][NextConc]_vars

(***************************************************************************)
(* The claims.                                                             *)
(***************************************************************************)
\* A step changes the mapping or the file's length.
MappingChanges ==
    \/ os'.base # os.base
    \/ os'.maplen # os.maplen
    \/ os'.length # os.length
    \/ mm'.data_ # mm.data_
    \/ mm'.file_size_ # mm.file_size_

NoViewHeld == \A t \in Threads : views[t] = <<>>

\* C1: in every interleaving of threads calling access(), reserve(),
\* resize() and stop(), a step that remaps or unmaps the file or changes its
\* length (the mapping base, file_size_ or the length on disk) is taken only
\* while no View of the file is held.
C1_NoRemapWhileViewHeld == [][MappingChanges => NoViewHeld]_vars

\* C1, its case: a thread waits in reserve() while another thread holds a
\* View of the live mapping.
C1_Witness ==
    \E t, u \in Threads :
        /\ t # u
        /\ pc[t] = "reserve"
        /\ views[u] # <<>>
        /\ views[u][1] = os.base
        /\ os.base # nullptr

\* C2: logical_size_ <= file_size_ in every state of a mapped file, after
\* construction and after any reserve(), resize() and stop(), also when a
\* system call fails.
C2_LogicalWithinCapacity == mm.logical_size_ <= mm.file_size_

\* The end and the key of the element store() has created and not yet linked.
PendingEnd == records[find_link(records, pending)].offset
                + records[find_link(records, pending)].size
PendingHash == records[find_link(records, pending)].hash

\* Every record linked into the index lies below the watermark.
LinkedBelowWatermark ==
    \A k \in 1..Len(chain) :
        LET i == find_link(records, chain[k])
        IN  i # 0 /\ records[i].offset + records[i].size <= mm.logical_size_

\* C3 as claimed: after any store() calls interleaved with any reserve() and
\* resize() calls, every linked record lies below the watermark.
C3_LinkedBelowWatermark == LinkedBelowWatermark

\* Every record store() has created, linked already or about to be, lies
\* below the watermark.
StoredBelowWatermark ==
    /\ LinkedBelowWatermark
    /\ pending # not_found =>
          /\ find_link(records, pending) # 0
          /\ PendingEnd <= mm.logical_size_

\* C3 as amended: no record is linked at first, and every step that does not
\* lower logical_size_ (a store, a reserve() or resize() of a size that is
\* not below the watermark, a reopen) keeps every record that store() has
\* created or linked below the watermark.
C3_LinkedBelowUnlessShrunk ==
    /\ StoredBelowWatermark
    /\ [][(StoredBelowWatermark /\ mm'.logical_size_ >= mm.logical_size_)
            => StoredBelowWatermark']_vars

\* C3, its case: a record is linked below the watermark, the file has grown
\* for it, and another caller's reserve() has just returned.
C3_Witness ==
    /\ Len(chain) >= 1
    /\ LinkedBelowWatermark
    /\ mm.file_size_ > DbFileLength
    /\ last.op = "reserve"
    /\ last.ret = "view"

\* The steps of store() and the crash between them.
AllocateStep == allocating = not_found /\ allocating' # not_found
CreateStep == pending = not_found /\ pending' # not_found
LinkStep == pending # not_found /\ chain' # chain
CrashBeforeLink == pending # not_found /\ last'.op = "reopen"

\* C4 as claimed: the allocation does not move logical_size_ (only link()
\* does), and after a crash between allocation and link() the reopened file's
\* logical_size_ does not include the record's bytes and get(hash) does not
\* find the record.
C4_AllocationKeepsWatermark ==
    [][/\ CreateStep => mm'.logical_size_ = mm.logical_size_
       /\ CrashBeforeLink =>
            /\ mm'.logical_size_ <= pending
            /\ get_hash(records', chain', PendingHash).offset # pending]_vars

\* C4 as amended: the allocator takes the watermark as its offset and
\* leaves it where it is; its reserve() then moves logical_size_ to the end
\* of the new record at that offset, whatever other callers' reserve() and
\* resize() have made of it in between, and link() leaves it alone; after a
\* crash between allocation and link() the reopened file's logical_size_ is
\* the file's length, which includes the record's bytes when nothing has
\* resized the file since the allocation, and get(hash) does not find the
\* record.
C4_AllocationMovesWatermark ==
    [][/\ AllocateStep =>
            /\ allocating' = mm.logical_size_
            /\ mm'.logical_size_ = mm.logical_size_
       /\ CreateStep =>
            /\ mm'.logical_size_ = pending' + metadata_size
                 + serialized_size(records'[find_link(records', pending')].tx)
            /\ pending' = allocating
       /\ LinkStep => mm'.logical_size_ = mm.logical_size_
       /\ CrashBeforeLink =>
            /\ mm'.logical_size_ = os.length
            /\ last.op = "create" => mm'.logical_size_ >= PendingEnd
            /\ get_hash(records', chain', PendingHash).offset # pending]_vars

\* C4, its case: the process died between allocation and link() while a
\* record with the same hash was linked, and the database is open again.
C4_Witness ==
    /\ last.op = "reopen"
    /\ last.link # not_found
    /\ find_link(records, last.link) # 0
    /\ mm.logical_size_ = os.length
    /\ mm.logical_size_ >= records[find_link(records, last.link)].offset
                             + records[find_link(records, last.link)].size
    /\ find_hash(records, chain, records[find_link(records, last.link)].hash)
         # 0

\* C5: after store(tx, height, mtp, position, state) returns, get(tx.hash())
\* returns the record just stored, its body equal to tx and its metadata
\* equal to the arguments, also when an older record has the same hash (for
\* a call between whose steps no other thread took a step).
C5_StoreThenGet ==
    (last.op = "store" /\ last.ret = "true" /\ last.alone) =>
        LET g == get_hash(records, chain, last.tx.hash)
        IN  /\ g.offset = last.link
            /\ g.tx = last.tx
            /\ g.height = last.height
            /\ g.median_time_past = last.median_time_past
            /\ g.position = last.position
            /\ g.state = last.state

\* C5, its case: store() has returned for a transaction whose hash an older
\* record with another body has too.
C5_Witness ==
    /\ last.op = "store"
    /\ last.ret = "true"
    /\ last.alone
    /\ \E i \in 1..Len(records) :
          /\ records[i].offset # last.link
          /\ records[i].hash = last.tx.hash
          /\ records[i].tx # last.tx

\* C6: after confirm(offset, h, mtp, p) returns true, get(offset) reports
\* state confirmed, height h, median_time_past mtp and position p.
C6_ConfirmThenGet ==
    (last.op = "confirm" /\ last.ret = "true") =>
        LET g == get_link(records, last.link)
        IN  /\ g.state = "confirmed"
            /\ g.height = last.height
            /\ g.median_time_past = last.median_time_past
            /\ g.position = last.position

\* C6, its case: confirm() has returned true for a record that spends
\* outputs of another record and was stored with other metadata.
C6_Witness ==
    /\ last.op = "confirm"
    /\ last.ret = "true"
    /\ \E k \in 1..Len(get_link(records, last.link).tx.inputs) :
          ~is_null(get_link(records, last.link).tx.inputs[k])

\* What C7 says of the record at offset `at`: it is pooled, unconfirmed and
\* unverified, and the output each of its non-null inputs refers to (in the
\* record get(hash) finds) is not spent.
Unconfirmed(at) ==
    LET g == get_link(records, at)
    IN  /\ g.state = "pooled"
        /\ g.position = unconfirmed
        /\ g.height = unverified
        /\ \A k \in 1..Len(g.tx.inputs) :
              LET point == g.tx.inputs[k]
                  prev == get_hash(records, chain, point.hash)
              IN  ~is_null(point) =>
                    /\ prev.offset # not_found
                    /\ point.index < prev.tx.outputs
                    /\ prev.spender[point.index + 1] = not_spent

\* C7 as claimed: after unconfirm(offset) on a record, the record is pooled,
\* unconfirmed and unverified and the outputs its inputs refer to are
\* unspent (for a call during which no other thread wrote to the records).
C7_UnconfirmResets ==
    (last.op = "unconfirm" /\ last.alone
        /\ find_link(records, last.link) # 0) =>
        Unconfirmed(last.link)

\* C7 as amended: the same after unconfirm(offset) has returned true.
C7_UnconfirmTrueResets ==
    (last.op = "unconfirm" /\ last.alone /\ last.ret = "true") =>
        Unconfirmed(last.link)

\* C7, its case: unconfirm() has returned true for a record with non-null
\* inputs.
C7_Witness ==
    /\ last.op = "unconfirm"
    /\ last.alone
    /\ last.ret = "true"
    /\ \E k \in 1..Len(get_link(records, last.link).tx.inputs) :
          ~is_null(get_link(records, last.link).tx.inputs[k])

\* confirm, unconfirm, confirm on the records recs, and the single confirm.
Single(recs, at, h, mtp, p) == confirm(recs, chain, at, h, mtp, p)
Triple(recs, at, h, mtp, p) ==
    confirm(unconfirm(confirm(recs, chain, at, h, mtp, p).recs, chain,
                      at).recs, chain, at, h, mtp, p)
ConfirmArgs == [at : Links \ {not_found}, h : Heights, mtp : Mtps,
                p : Positions \ {unconfirmed}]

\* Thread t has taken the step: its frame is another, and not only by the
\* write of another thread.
Acts(t) ==
    /\ frame'[t] # frame[t]
    /\ frame[t] # NoFrame => frame'[t] # [frame[t] EXCEPT !.alone = FALSE]

\* What thread t's call comes to when it runs alone from where it is.
Outcome(fr, recs, t) == finish(recs, chain, fr[t])

\* A call that runs alone does what confirm and unconfirm, the functions of
\* the records, say: at its entry, at each of its steps, at its return.
RunsAsComposed ==
    \A t \in Threads :
        Acts(t) =>
            IF frame[t] = NoFrame
            THEN frame'[t] # NoFrame =>
                    Outcome(frame', records', t)
                        = IF frame'[t].op = "confirm"
                          THEN confirm(records, chain, frame'[t].link,
                                       frame'[t].height,
                                       frame'[t].median_time_past,
                                       frame'[t].position)
                          ELSE unconfirm(records, chain, frame'[t].link)
            ELSE IF ~frame[t].alone THEN TRUE
            ELSE IF frame'[t] = NoFrame
            THEN [recs |-> records', ok |-> last'.ret = "true"]
                    = Outcome(frame, records, t)
            ELSE Outcome(frame', records', t) = Outcome(frame, records, t)

\* C8 as claimed: for every database state and every record, confirm then
\* unconfirm then confirm with the same arguments leaves the records and the
\* return value that a single confirm leaves.
C8_TripleIsSingle ==
    \A a \in ConfirmArgs :
        Triple(records, a.at, a.h, a.mtp, a.p)
            = Single(records, a.at, a.h, a.mtp, a.p)

\* C8 as amended: the same whenever the single confirm returns true; the
\* calls of the program, run one after the other, are these functions.
C8_TripleIsSingleWhenTrue ==
    /\ [](\A a \in ConfirmArgs :
            Single(records, a.at, a.h, a.mtp, a.p).ok =>
                Triple(records, a.at, a.h, a.mtp, a.p)
                    = Single(records, a.at, a.h, a.mtp, a.p))
    /\ [][RunsAsComposed]_vars

\* C8, its case: a record with non-null inputs can be confirmed, and its
\* own output is spent by a confirmed record.
C8_Witness ==
    /\ \E a \in ConfirmArgs :
          /\ Single(records, a.at, a.h, a.mtp, a.p).ok
          /\ ~is_null(get_link(records, a.at).tx.inputs[1])
    /\ \E a \in ConfirmArgs :
          /\ Single(records, a.at, a.h, a.mtp, a.p).ok
          /\ get_link(records, a.at).spender[1] # not_spent

\* C9: an output is marked spent only if the record that holds it is
\* confirmed.
C9_SpentOnlyIfConfirmed ==
    \A i \in 1..Len(records) :
        \A j \in 1..records[i].tx.outputs :
            records[i].spender[j] # not_spent => records[i].state = "confirmed"

\* Position and state of every record agree.
Sentinel(position, state) ==
    position = unconfirmed <=> state \in {"stored", "pooled", "invalid"}
PositionMatchesState ==
    \A i \in 1..Len(records) : Sentinel(records[i].position, records[i].state)

\* C10 as claimed: in every state reached by store, pool, confirm and
\* unconfirm calls within their preconditions, a record's position is the
\* unconfirmed sentinel exactly when its state is stored, pooled or invalid.
C10_PositionMatchesState == PositionMatchesState

\* C10 as amended: the same as long as every store() call is itself given
\* the sentinel position exactly with one of these three states: it holds at
\* first, and every step keeps it but the writing of its record by a
\* store() that is given anything else.
C10_PositionMatchesStateUnlessStored ==
    /\ PositionMatchesState
    /\ [][(/\ PositionMatchesState
           /\ CreateStep => Sentinel(last'.position, last'.state))
            => PositionMatchesState']_vars

\* C10, its case: a record stored as pooled was confirmed and a record was
\* returned to the pool by unconfirm().
C10_Witness ==
    /\ PositionMatchesState
    /\ last.op = "unconfirm"
    /\ last.ret = "true"
    /\ \E i \in 1..Len(records) : records[i].state = "confirmed"

\* The records the point of the last get_output() names: confirmed, with the
\* point's hash and an output at the point's index.
ConfirmedOutputs ==
    {i \in 1..Len(records) :
        /\ records[i].state = "confirmed"
        /\ records[i].hash = last.point.hash
        /\ last.point.index < records[i].tx.outputs}

\* What C11 says get_output() returned for the output of record i.
ReportsConfirmed(i) ==
    /\ last.fork_height >= records[i].height =>
          /\ last.ret
          /\ last.prevout.confirmed
          /\ last.prevout.height = records[i].height
    /\ last.fork_height < records[i].height => ~last.ret

\* C11 as claimed: for every record confirmed at height H and every output
\* index of it, get_output(point, fork_height) returns true with confirmed
\* set and height H when fork_height >= H, and false when fork_height < H;
\* read for a call during which no other thread wrote to the database.
C11_ConfirmedOutputVisible ==
    (last.op = "get_output" /\ last.alone) =>
        \A i \in ConfirmedOutputs : ReportsConfirmed(i)

\* C11 as amended: for a call during which no other thread wrote to the
\* database, the same for the record that get(point.hash()) finds when H is
\* not 0; when H is 0 the call returns false at every fork height.
C11_FoundConfirmedOutputVisible ==
    (last.op = "get_output" /\ last.alone) =>
        \A i \in ConfirmedOutputs :
            i = find_hash(records, chain, last.point.hash) =>
                IF records[i].height = 0 THEN ~last.ret
                ELSE ReportsConfirmed(i)

\* C11, its case: get_output(), with no write of another thread during the
\* call, has returned false for an output of a record confirmed above the
\* fork height, while a second record is confirmed.
C11_Witness ==
    /\ last.op = "get_output"
    /\ last.alone
    /\ ~last.ret
    /\ \E i \in ConfirmedOutputs :
          /\ i = find_hash(records, chain, last.point.hash)
          /\ records[i].height > last.fork_height
    /\ \E j \in 1..Len(records) :
          records[j].state = "confirmed" /\ records[j].hash # last.point.hash

\* C12: when get_output(point, fork_height) returns true, no other thread
\* having written to the database during the call, prevout.spent is true
\* exactly when the record is confirmed relative to fork_height and its
\* output is spent (spender_height is not the not-spent sentinel) at a
\* spender height <= fork_height, for every fork_height, the pool-mode
\* sentinel included.
C12_SpentIffSpentBelowFork ==
    (last.op = "get_output" /\ last.alone /\ last.ret) =>
        LET r == get_hash(records, chain, last.point.hash)
            spender_height == r.spender[last.point.index + 1]
        IN  last.prevout.spent <=>
               /\ last.prevout.confirmed
               /\ spender_height # not_spent
               /\ spender_height <= last.fork_height

\* A step of a get_output() call: its return, or its move to the next read.
GetOutputStep ==
    \/ last'.op = "get_output"
    \/ \E t \in Threads :
          /\ frame'[t].at \in {"result", "output"}
          /\ frame'[t].at # frame[t].at

\* The step is the return of a get_output() call of thread t that had read
\* the metadata of the record found in the same step.
ReturnsAtResult(t) ==
    /\ frame[t].at = "result"
    /\ frame'[t] = NoFrame
    /\ last'.op = "get_output"

\* The last get_output() returned false with a zeroed prevout.
ZeroAndFalse(l) ==
    /\ ~l.ret
    /\ l.prevout.height = 0
    /\ l.prevout.median_time_past = 0
    /\ ~l.prevout.spent

\* C13: get_output() returns false and leaves prevout.height = 0,
\* prevout.median_time_past = 0 and prevout.spent = false, and changes no
\* record, when the point is null, no record has the point's hash, or the
\* record found has height 0. No step of a call changes a record; a call
\* that returns with a null point or with no record of the point's hash
\* returns so; a call that reads height 0 in the record found returns so
\* in the step that reads it; and a call during which no other thread
\* wrote returns so when the record found has height 0.
C13_NotFoundLeavesZero ==
    [][/\ GetOutputStep => records' = records /\ chain' = chain
       /\ (/\ last'.op = "get_output"
           /\ \/ is_null(last'.point)
              \/ find_hash(records, chain, last'.point.hash) = 0)
            => ZeroAndFalse(last')
       /\ \A t \in Threads :
             (/\ frame[t].at = "result"
              /\ frame'[t].at # "result"
              /\ records[frame[t].element].height = 0)
               => ReturnsAtResult(t) /\ ZeroAndFalse(last')
       /\ (/\ last'.op = "get_output"
           /\ last'.alone
           /\ ~is_null(last'.point)
           /\ get_hash(records, chain, last'.point.hash) # NoRecord
           /\ get_hash(records, chain, last'.point.hash).height = 0)
            => ZeroAndFalse(last')]_vars

\* C13, its case: get_output(), with no write of another thread during the
\* call, has returned false for an output of a record confirmed at height 0
\* with a median time past.
C13_Witness ==
    /\ last.op = "get_output"
    /\ last.alone
    /\ ~last.ret
    /\ ~is_null(last.point)
    /\ get_hash(records, chain, last.point.hash) # NoRecord
    /\ get_hash(records, chain, last.point.hash).height = 0
    /\ get_hash(records, chain, last.point.hash).state = "confirmed"
    /\ get_hash(records, chain, last.point.hash).median_time_past # 0
    /\ last.point.index
         < get_hash(records, chain, last.point.hash).tx.outputs

\* The immutable part of every record is in the next state what it is now.
BodiesKept ==
    \A i \in 1..Len(records) :
        /\ i <= Len(records')
        /\ records'[i].offset = records[i].offset
        /\ records'[i].size = records[i].size
        /\ records'[i].hash = records[i].hash
        /\ records'[i].tx = records[i].tx

\* The metadata prefix of a record.
Metadata(r) == <<r.height, r.position, r.state, r.median_time_past>>

\* Output j of record i is what the call f is about to write: the output
\* that a non-null input of f's record names by hash and index.
Referenced(i, j, f) ==
    /\ f.at = "write"
    /\ f.element = i
    /\ f.point.index + 1 = j
    /\ ~is_null(f.point)
    /\ records[i].hash = f.point.hash
    /\ \E k \in 1..Len(get_link(records, f.link).tx.inputs) :
          get_link(records, f.link).tx.inputs[k] = f.point

\* C14: no store, pool, confirm or unconfirm call changes the body of a
\* linked record; a confirm(offset) or unconfirm(offset) call changes only
\* the metadata of the record at offset and the spender_height of the outputs
\* that its inputs refer to.
C14_BodiesImmutable ==
    [][/\ BodiesKept
       /\ \A i \in 1..Len(records) :
             /\ Metadata(records'[i]) # Metadata(records[i]) =>
                   \E t \in Threads :
                       /\ Acts(t)
                       /\ frame[t] # NoFrame
                       /\ frame[t].link = records[i].offset
             /\ \A j \in 1..records[i].tx.outputs :
                   records'[i].spender[j] # records[i].spender[j] =>
                       \E t \in Threads :
                           Acts(t) /\ Referenced(i, j, frame[t])]_vars

\* C14, its case: confirm() has returned true for a record that spends the
\* outputs of another record and is confirmed above it.
C14_Witness ==
    /\ last.op = "confirm"
    /\ last.ret = "true"
    /\ \E i \in 1..Len(records) :
          /\ records[i].offset # last.link
          /\ records[i].spender[1] = last.height
          /\ records[i].height < last.height

\* C15: the state invalid is terminal: once a record's state is invalid, no
\* store, pool, confirm or unconfirm call changes the state of that record.
C15_InvalidIsTerminal ==
    [][\A i \in 1..Len(records) :
          records[i].state = "invalid" =>
              /\ i <= Len(records')
              /\ records'[i].state = "invalid"]_vars

\* C16: whenever close() returns true the mapping is gone, the file's length
\* is logical_size_ and the handle is closed, also when an earlier close()
\* failed or the map failed at construction.
C16_CloseTrueMeansClosed ==
    ret = "true" =>
        /\ os.base = nullptr
        /\ os.maplen = 0
        /\ os.length = mm.logical_size_
        /\ ~os.open

\* No thread is inside reserve(), resize() or stop() while it holds a View.
NoCallWhileHolding ==
    \A u \in Threads : pc[u] # "idle" => views[u] = <<>>
NoViews == \A u \in Threads : views[u] = <<>>
Completes(t) == (pc[t] \in {"reserve", "resize"}) ~> (pc[t] = "idle")

C18_SpendWritesIntoConfirmed ==
    [][\A t \in Threads :
          (frame[t].at = "write" /\ frame'[t].at = "spend") =>
              /\ records[frame[t].element].state = "confirmed"
              /\ records[frame[t].element].height
                    <= frame[t].spender_height]_vars

\* The point cannot be spent at height h: its transaction is missing from
\* the index, is not confirmed, is above h, or has no output of that index.
Unspendable(point, h) ==
    LET prev == get_hash(records, chain, point.hash)
    IN  \/ prev = NoRecord
        \/ prev.state # "confirmed"
        \/ prev.height > h
        \/ point.index >= prev.tx.outputs

\* The record at offset `at` has a non-null input that cannot be spent at h.
HasUnspendableInput(at, h) ==
    \E k \in 1..Len(get_link(records, at).tx.inputs) :
        /\ ~is_null(get_link(records, at).tx.inputs[k])
        /\ Unspendable(get_link(records, at).tx.inputs[k], h)

\* C19: confirm(offset, h, mtp, p) returns false and leaves the metadata of
\* the record at offset alone whenever a non-null input of the record refers
\* to a transaction that is missing, not confirmed, above h, or too short;
\* null inputs are never looked up. (For a call during which no other
\* thread wrote to the records; no step of a call but the update() of one
\* that returns true changes the metadata of its record.)
C19_ConfirmRejects ==
    /\ []((/\ last.op = "confirm"
           /\ last.alone
           /\ find_link(records, last.link) # 0
           /\ HasUnspendableInput(last.link, last.height))
           => last.ret = "false")
    /\ [][\A t \in Threads :
            (/\ frame[t] # NoFrame
             /\ Acts(t)
             /\ ~(frame'[t] = NoFrame /\ last'.ret = "true"))
             => Metadata(get_link(records', frame[t].link))
                  = Metadata(get_link(records, frame[t].link))]_vars

\* C19, its case: confirm() has returned false for a record whose previous
\* transaction is confirmed above the height given.
C19_Witness ==
    /\ last.op = "confirm"
    /\ last.alone
    /\ last.ret = "false"
    /\ find_link(records, last.link) # 0
    /\ \E k \in 1..Len(get_link(records, last.link).tx.inputs) :
          LET point == get_link(records, last.link).tx.inputs[k]
              prev == get_hash(records, chain, point.hash)
          IN  /\ ~is_null(point)
              /\ prev # NoRecord
              /\ prev.state = "confirmed"
              /\ prev.height > last.height
              /\ point.index < prev.tx.outputs

\* C20: a confirm() or unconfirm() call that returns false leaves every
\* record's metadata and every output's spender_height as they were: when
\* no other thread wrote during the call, none of its steps has changed a
\* record.
C20_FalseChangesNothing ==
    (last.op \in {"confirm", "unconfirm"} /\ last.alone
        /\ last.ret = "false") => ~last.changed

\* C21: in pool mode get_output() on an existing output of a pooled record
\* returns true with prevout.confirmed = false, whatever forks value the
\* record carries, 0 included, and also after unconfirm() made it pooled;
\* read for a call during which no other thread wrote to the database.
C21_PooledOutputVisibleInPool ==
    (/\ last.op = "get_output"
     /\ last.alone
     /\ last.fork_height = max_size_t
     /\ ~is_null(last.point)
     /\ get_hash(records, chain, last.point.hash) # NoRecord
     /\ get_hash(records, chain, last.point.hash).state = "pooled"
     /\ last.point.index < get_hash(records, chain, last.point.hash).tx.outputs)
        => last.ret /\ ~last.prevout.confirmed

\* C22: no View is handed out whose base pointer refers to a region that is
\* unmapped: every View a thread holds points at the live mapping, also
\* when access() or reserve() is called after close() has completed.
C22_ViewPinsLiveMapping ==
    \A t \in Threads :
        \A i \in 1..Len(views[t]) :
            views[t][i] # nullptr => views[t][i] = os.base

====
